---- MODULE Spec2Model ----
(***************************************************************************)
(* A model of gnsstime.py: the gnsstime class (a datetime subclass), its   *)
(* leap-second table, its constructors, its derived properties, its        *)
(* duration arithmetic and the gpscal front-end.                           *)
(*                                                                         *)
(* Values are records tagged by a "cls" field:                             *)
(*   "gnsstime" / "datetime" : the seven calendar fields                   *)
(*   "timedelta"             : days, seconds, microseconds (normalised)    *)
(*   "int", "tuple", "None"  : plain results                               *)
(*   "error"                 : a raised exception, named by "exc"          *)
(* An optional argument is <<>> (None) or <<v>>.  A string is a sequence   *)
(* of one-character strings.                                               *)
(***************************************************************************)
EXTENDS Integers, Sequences, FiniteSets, TLC

VARIABLES self, op, args, result

vars == <<self, op, args, result>>

----------------------------------------------------------------------------
(* Bounds of the explored inputs.                                          *)

\* receivers lie within this many days of an anchor date
MaxDayOffset == 1
\* receivers carry 0..MaxMicro microseconds after midnight
MaxMicro == 1
\* durations have up to this many days, either sign
MaxDeltaDays == 1
\* from_gpsw is tried with 0..MaxRollover rollovers
MaxRollover == 1
\* from_gpsw is tried with the weeks 0..MaxWeek besides the receiver's own
MaxWeek == 1
\* from_doy is tried with the days -MaxDoy..MaxDoy besides the year ends
MaxDoy == 2

----------------------------------------------------------------------------
(* Python helpers.                                                         *)

None == <<>>

Some(x) == <<x>>

IsNone(x) == x = <<>>

Val(x) == x[1]

Raise(e) == [cls |-> "error", exc |-> e]

IsError(x) == x.cls = "error"

IntVal(n) == [cls |-> "int", v |-> n]

NoneResult == [cls |-> "None"]

\* int(a / float(b)) for b > 0: the quotient truncated toward zero
TruncDiv(a, b) == IF a >= 0 THEN a \div b ELSE -((-a) \div b)

----------------------------------------------------------------------------
(* The standard datetime arithmetic gnsstime inherits.                     *)

is_leap(y) == y % 4 = 0 /\ (y % 100 # 0 \/ y % 400 = 0)

days_before_year(y) ==
    LET p == y - 1 IN p * 365 + (p \div 4) - (p \div 100) + (p \div 400)

days_in_month(y, m) ==
    IF m = 2 THEN (IF is_leap(y) THEN 29 ELSE 28)
    ELSE IF m \in {4, 6, 9, 11} THEN 30 ELSE 31

RECURSIVE days_before_month(_, _)
days_before_month(y, m) ==
    IF m = 1 THEN 0 ELSE days_before_month(y, m - 1) + days_in_month(y, m - 1)

ymd2ord(y, m, d) == days_before_year(y) + days_before_month(y, m) + d

ValidDate(y, m, d) ==
    /\ y \in 1..9999
    /\ m \in 1..12
    /\ d >= 1
    /\ d <= days_in_month(y, m)

\* the (year, month, day) of proleptic Gregorian ordinal n, 1 = 0001-01-01
ord2ymd(ord) ==
    LET n0   == ord - 1
        n400 == n0 \div 146097
        r400 == n0 % 146097
        n100 == r400 \div 36524
        r100 == r400 % 36524
        n4   == r100 \div 1461
        r4   == r100 % 1461
        n1   == r4 \div 365
        r1   == r4 % 365
        year == n400 * 400 + 1 + n100 * 100 + n4 * 4 + n1
    IN  IF n1 = 4 \/ n100 = 4
        THEN [year |-> year - 1, month |-> 12, day |-> 31]
        ELSE LET m0 == (r1 + 50) \div 32
                 pre0 == days_before_month(year, m0)
                 m  == IF pre0 > r1 THEN m0 - 1 ELSE m0
                 pre == days_before_month(year, m)
             IN  [year |-> year, month |-> m, day |-> r1 - pre + 1]

\* cls(year, month, day, hour, minute, second, microsecond)
New(c, y, m, d, hh, mm, ss, us) ==
    IF ValidDate(y, m, d) /\ hh \in 0..23 /\ mm \in 0..59 /\ ss \in 0..59
       /\ us \in 0..999999
    THEN [cls |-> c, year |-> y, month |-> m, day |-> d, hour |-> hh,
          minute |-> mm, second |-> ss, microsecond |-> us]
    ELSE Raise("ValueError")

IsTime(x) == x.cls \in {"gnsstime", "datetime"}

toordinal(t) == ymd2ord(t.year, t.month, t.day)

SecOfDay(t) == t.hour * 3600 + t.minute * 60 + t.second

\* timedelta(days, seconds, microseconds), normalised as the constructor does
timedelta(days, seconds, microseconds) ==
    LET s1 == seconds + (microseconds \div 1000000)
    IN  [cls |-> "timedelta",
         days |-> days + (s1 \div 86400),
         seconds |-> s1 % 86400,
         microseconds |-> microseconds % 1000000]

Neg(d) == timedelta(-d.days, -d.seconds, -d.microseconds)

\* datetime + timedelta: the result has the class of the left operand
DatetimeAdd(t, d) ==
    LET delta == timedelta(toordinal(t) + d.days, SecOfDay(t) + d.seconds,
                           t.microsecond + d.microseconds)
    IN  IF delta.days > 0 /\ delta.days <= 3652059
        THEN LET ymd == ord2ymd(delta.days)
             IN  New(t.cls, ymd.year, ymd.month, ymd.day,
                     delta.seconds \div 3600, (delta.seconds % 3600) \div 60,
                     delta.seconds % 60, delta.microseconds)
        ELSE Raise("OverflowError")

Fields(t) == <<t.year, t.month, t.day, t.hour, t.minute, t.second,
               t.microsecond>>

RECURSIVE LexLeq(_, _)
LexLeq(a, b) ==
    IF a = <<>> THEN TRUE
    ELSE IF Head(a) # Head(b) THEN Head(a) < Head(b)
    ELSE LexLeq(Tail(a), Tail(b))

\* a >= b on two datetimes
Geq(a, b) == LexLeq(Fields(b), Fields(a))

isoweekday(t) == LET w == toordinal(t) % 7 IN IF w = 0 THEN 7 ELSE w

----------------------------------------------------------------------------
(* gnsstime: class data.                                                   *)

Datetime(y, m, d) == New("datetime", y, m, d, 0, 0, 0, 0)

gnsstime(y, m, d) == New("gnsstime", y, m, d, 0, 0, 0, 0)

DT_MJD0 == Datetime(1858, 11, 17)

dt_gpst0 == Datetime(1980, 1, 6)

leapsec_entry(yyyy, mm, dd, sec) == [date |-> Datetime(yyyy, mm, dd), sec |-> sec]

leaps ==
    << leapsec_entry(2015, 7, 1, -17), leapsec_entry(2012, 7, 1, -16),
       leapsec_entry(2009, 1, 1, -15), leapsec_entry(2006, 1, 1, -14),
       leapsec_entry(1999, 1, 1, -13), leapsec_entry(1997, 7, 1, -12),
       leapsec_entry(1996, 1, 1, -11), leapsec_entry(1994, 7, 1, -10),
       leapsec_entry(1993, 7, 1, -9),  leapsec_entry(1992, 7, 1, -8),
       leapsec_entry(1991, 1, 1, -7),  leapsec_entry(1990, 1, 1, -6),
       leapsec_entry(1988, 1, 1, -5),  leapsec_entry(1985, 7, 1, -4),
       leapsec_entry(1983, 7, 1, -3),  leapsec_entry(1982, 7, 1, -2),
       leapsec_entry(1981, 7, 1, -1) >>

----------------------------------------------------------------------------
(* gnsstime: static and class methods.                                     *)

Digits == <<"0", "1", "2", "3", "4", "5", "6", "7", "8", "9">>

IsDigit(c) == \E i \in 1..10 : Digits[i] = c

DigitVal(c) == (CHOOSE i \in 1..10 : Digits[i] = c) - 1

RECURSIVE strip(_)
strip(s) ==
    IF s = <<>> THEN s
    ELSE IF Head(s) = " " THEN strip(Tail(s))
    ELSE IF s[Len(s)] = " " THEN strip(SubSeq(s, 1, Len(s) - 1))
    ELSE s

\* s.split('/'): the pieces between the slashes, as a sequence of strings
RECURSIVE split(_)
split(s) ==
    IF \A i \in 1..Len(s) : s[i] # "/" THEN <<s>>
    ELSE LET i == CHOOSE k \in 1..Len(s) :
                      s[k] = "/" /\ \A j \in 1..(k - 1) : s[j] # "/"
         IN  <<SubSeq(s, 1, i - 1)>> \o split(SubSeq(s, i + 1, Len(s)))

RECURSIVE DigitsVal(_)
DigitsVal(s) ==
    IF s = <<>> THEN 0
    ELSE 10 * DigitsVal(SubSeq(s, 1, Len(s) - 1)) + DigitVal(s[Len(s)])

\* int(s) accepts surrounding blanks and decimal digits
CanInt(s) == LET b == strip(s) IN b # <<>> /\ \A i \in 1..Len(b) : IsDigit(b[i])

ParseInt(s) == DigitsVal(strip(s))

ymd2date(ymd) ==
    LET parts == split(strip(ymd))
    IN  IF Len(parts) # 3 \/ \E i \in 1..3 : ~CanInt(parts[i])
        THEN Raise("ValueError")
        ELSE Datetime(ParseInt(parts[1]), ParseInt(parts[2]), ParseInt(parts[3]))

mjd2date(mjd) == DatetimeAdd(DT_MJD0, timedelta(mjd, 0, 0))

from_datetime(dto) ==
    IF IsError(dto) THEN dto
    ELSE New("gnsstime", dto.year, dto.month, dto.day, dto.hour, dto.minute,
             dto.second, dto.microsecond)

from_mjd(mjd) == from_datetime(mjd2date(mjd))

to_datetime(t) ==
    New("datetime", t.year, t.month, t.day, t.hour, t.minute, t.second,
        t.microsecond)

\* gpswd and tow are optional; tow is a whole number of seconds
from_gpsw(gpsw, gpswd, tow, nrollover) ==
    LET wd == IF ~IsNone(gpswd) THEN Val(gpswd)
              ELSE IF ~IsNone(tow) THEN TruncDiv(Val(tow), 86400)
              ELSE 0
        seconds == IF IsNone(gpswd) /\ ~IsNone(tow)
                   THEN Val(tow) - wd * 86400 ELSE 0
    IN  DatetimeAdd(dt_gpst0,
                    timedelta(1024 * nrollover + gpsw * 7 + wd, seconds, 0))

\* t + d
add(t, d) == from_datetime(DatetimeAdd(to_datetime(t), d))

\* d + t
radd(t, d) == add(t, d)

\* a variant of sub_timedelta that forgets to negate the duration
sub_timedelta_no_negate(t, d) == add(t, d)

\* t - d for a timedelta d
sub_timedelta(t, d) == add(t, Neg(d))

\* t - other for a datetime other
sub_datetime(t, other) ==
    LET dday == toordinal(t) - toordinal(other)
        dsec == SecOfDay(t) - SecOfDay(other)
        dmicrosec == other.microsecond - other.microsecond
    IN  timedelta(dday, dsec, dmicrosec)

sub(t, other) ==
    IF IsTime(other) THEN sub_datetime(t, other)
    ELSE IF other.cls = "timedelta" THEN sub_timedelta(t, other)
    ELSE NoneResult

\* a variant of from_doy that rejects only negative days
from_doy_accepts_zero(year, doy) ==
    LET y == IF year < 100 THEN (IF year < 80 THEN year + 2000 ELSE year + 1900)
             ELSE year
    IN  IF doy < 0 THEN NoneResult
        ELSE LET jan1 == gnsstime(y, 1, 1)
             IN  IF IsError(jan1) THEN jan1
                 ELSE add(jan1, timedelta(doy - 1, 0, 0))

from_doy(year, doy) ==
    LET y == IF year < 100 THEN (IF year < 80 THEN year + 2000 ELSE year + 1900)
             ELSE year
    IN  IF doy < 1 THEN NoneResult
        ELSE LET jan1 == gnsstime(y, 1, 1)
             IN  IF IsError(jan1) THEN jan1
                 ELSE add(jan1, timedelta(doy - 1, 0, 0))

----------------------------------------------------------------------------
(* gnsstime: properties.                                                   *)

gpsw(t) == TruncDiv(sub(t, dt_gpst0).days, 7)

gpswd(t) == isoweekday(t) % 7

gpswsec(t) == gpswd(t) * 86400 + t.hour * 3600 + t.minute * 60 + t.second

doy(t) == toordinal(t) - ymd2ord(t.year, 1, 1) + 1

RECURSIVE leapscan(_, _)
leapscan(t, i) ==
    IF i > Len(leaps) THEN 0
    ELSE IF Geq(t, leaps[i].date) THEN leaps[i].sec
    ELSE leapscan(t, i + 1)

RECURSIVE leapscan_exclusive(_, _)
leapscan_exclusive(t, i) ==
    IF i > Len(leaps) THEN 0
    ELSE IF Geq(t, leaps[i].date) /\ Fields(t) # Fields(leaps[i].date)
         THEN leaps[i].sec
    ELSE leapscan_exclusive(t, i + 1)

\* a variant of leapsec whose entries apply only after their effective date
leapsec_exclusive(t) == leapscan_exclusive(t, 1)

leapsec(t) == leapscan(t, 1)

gpst(t) == sub(t, timedelta(0, leapsec(t), 0))

\* (self - DT_MJD0).total_seconds() / 86400. as days + num/den
mjd(t) ==
    LET d == sub(t, DT_MJD0)
    IN  [cls |-> "float", days |-> d.days, num |-> d.seconds, den |-> 86400]

GnssProps == {"gpsw", "gpswd", "gpswsec", "doy", "leapsec", "gpst", "mjd"}

\* obj.name: the properties exist on a gnsstime only
GetAttr(obj, name) ==
    IF obj.cls # "gnsstime" THEN Raise("AttributeError")
    ELSE CASE name = "gpsw"    -> IntVal(gpsw(obj))
           [] name = "gpswd"   -> IntVal(gpswd(obj))
           [] name = "gpswsec" -> IntVal(gpswsec(obj))
           [] name = "doy"     -> IntVal(doy(obj))
           [] name = "leapsec" -> IntVal(leapsec(obj))
           [] name = "gpst"    -> gpst(obj)
           [] name = "mjd"     -> mjd(obj)

----------------------------------------------------------------------------
(* gnsstime: the gpscal front-end.                                         *)

Str(s) == [cls |-> "str", s |-> s]

\* a local variable that no branch has assigned
Unbound == [cls |-> "unbound"]

Arg(pos, i) == IF i <= Len(pos) THEN pos[i].v ELSE 0

\* dt.datetime(*args) on three to seven positional arguments
DatetimeOf(pos) ==
    IF Len(pos) > 7 \/ \E i \in 1..Len(pos) : pos[i].cls # "int"
    THEN Raise("TypeError")
    ELSE New("datetime", Arg(pos, 1), Arg(pos, 2), Arg(pos, 3), Arg(pos, 4),
             Arg(pos, 5), Arg(pos, 6), Arg(pos, 7))

\* tmpdate.replace(year=, month=, day=)
replace(t, year, month, day) ==
    New(t.cls, year, month, day, t.hour, t.minute, t.second, t.microsecond)

\* the first if/elif/else of _arg2date: the positional arguments
arg2date_positional(t, pos) ==
    IF Len(pos) = 1
    THEN IF IsTime(pos[1]) THEN from_datetime(pos[1])
         ELSE IF pos[1].cls = "str" THEN ymd2date(pos[1].s)
         ELSE Unbound
    ELSE IF Len(pos) >= 3 THEN from_datetime(DatetimeOf(pos))
    ELSE from_datetime(t)

arg2date(t, pos, date, year, month, day, ymd, mjdkw) ==
    LET tmpdate == arg2date_positional(t, pos)
    IN  IF IsError(tmpdate) THEN tmpdate
        ELSE IF ~IsNone(date) THEN from_datetime(Val(date))
        ELSE IF ~IsNone(year) /\ ~IsNone(month) /\ ~IsNone(day)
             THEN IF tmpdate.cls = "unbound" THEN Raise("UnboundLocalError")
                  ELSE replace(tmpdate, Val(year), Val(month), Val(day))
        ELSE IF ~IsNone(ymd) THEN from_datetime(ymd2date(Val(ymd)))
        ELSE IF ~IsNone(mjdkw) THEN from_datetime(mjd2date(Val(mjdkw)))
        ELSE IF tmpdate.cls = "unbound" THEN Raise("UnboundLocalError")
        ELSE tmpdate

Triple(a, b, c) ==
    IF IsError(a) THEN a
    ELSE IF IsError(b) THEN b
    ELSE IF IsError(c) THEN c
    ELSE [cls |-> "tuple", doy |-> a.v, gpsw |-> b.v, gpswd |-> c.v]

gpscal(t, pos, date, year, month, day, ymd, mjdkw) ==
    LET d == arg2date(t, pos, date, year, month, day, ymd, mjdkw)
    IN  IF IsError(d) THEN d
        ELSE Triple(GetAttr(d, "doy"), GetAttr(d, "gpsw"), GetAttr(d, "gpswd"))

----------------------------------------------------------------------------
(* The inputs explored.                                                    *)

AnchorDates ==
    {leaps[i].date : i \in 1..Len(leaps)}
    \cup {dt_gpst0, Datetime(1980, 1, 1), Datetime(2011, 1, 1),
          Datetime(2013, 12, 31), Datetime(2016, 1, 1)}

TimesOfDay ==
    {timedelta(0, 0, u) : u \in 0..MaxMicro} \cup {timedelta(0, 86399, 999999)}

Receivers ==
    {from_datetime(DatetimeAdd(a, timedelta(k, tod.seconds, tod.microseconds))) :
        a \in AnchorDates, k \in (-MaxDayOffset)..MaxDayOffset, tod \in TimesOfDay}

Deltas ==
    {timedelta(d, sec, us) : d \in (-MaxDeltaDays)..MaxDeltaDays,
                             sec \in {0, 1, 86399}, us \in {0, 1, 999999}}

\* the datetimes a receiver is compared with and converted from
Others ==
    {t \in Receivers : t.year = 2011} \cup {to_datetime(t) : t \in {r \in Receivers : r.year = 1980 /\ r.day >= 5}}
    \cup {DT_MJD0}

OptWeekdays(t) == {None, Some(0), Some(6), Some(gpswd(t))}

Weeks(t) == 0..MaxWeek \cup {gpsw(t)}

Tows == {None, Some(0), Some(90061), Some(604799)}

Years == {0, 11, 79, 80, 99, 100, 1980, 2012, 9999}

Doys == (-MaxDoy)..MaxDoy \cup {365, 366, 367, 400}

Mjds == {-1, 0, 55562, 56657}

\* the receivers gpscal is called on: the module-level one and the test's
CalReceivers ==
    {t \in Receivers : <<t.year, t.month, t.day>> \in {<<1980, 1, 6>>, <<2011, 1, 1>>}}

\* the dates handed to gpscal, as <<year, month, day>>
CalDates == {<<2013, 12, 31>>, <<2011, 1, 1>>, <<1980, 1, 5>>}

RECURSIVE DigitSeq(_)
DigitSeq(n) ==
    IF n < 10 THEN <<Digits[n + 1]>>
    ELSE DigitSeq(n \div 10) \o <<Digits[(n % 10) + 1]>>

Pad2(n) == IF n < 10 THEN <<"0">> \o DigitSeq(n) ELSE DigitSeq(n)

\* "yyyy/mm/dd"
FormatYmd(D) == DigitSeq(D[1]) \o <<"/">> \o Pad2(D[2]) \o <<"/">> \o Pad2(D[3])

\* " yyyy/m/d "
FormatLoose(D) ==
    <<" ">> \o DigitSeq(D[1]) \o <<"/">> \o DigitSeq(D[2]) \o <<"/">>
    \o DigitSeq(D[3]) \o <<" ">>

\* "yyyy-mm-dd": not a string ymd2date accepts
FormatDashed(D) == DigitSeq(D[1]) \o <<"-">> \o Pad2(D[2]) \o <<"-">> \o Pad2(D[3])

MjdOf(D) == ymd2ord(D[1], D[2], D[3]) - toordinal(DT_MJD0)

PosInts(D) == <<IntVal(D[1]), IntVal(D[2]), IntVal(D[3])>>

PosInputs ==
    {<<>>}
    \cup {PosInts(D) : D \in CalDates}
    \cup {<<Datetime(D[1], D[2], D[3])>> : D \in CalDates}
    \cup {<<Str(FormatYmd(D))>> : D \in CalDates}
    \cup {PosInts(<<2013, 2, 30>>), <<IntVal(56657)>>, <<IntVal(2013), IntVal(12)>>}

DateInputs == {None} \cup {Some(Datetime(D[1], D[2], D[3])) : D \in CalDates}

\* year=, month=, day=: none, all three, or the year alone
YmdInputs ==
    {<<None, None, None>>}
    \cup {<<Some(D[1]), Some(D[2]), Some(D[3])>> : D \in CalDates}
    \cup {<<Some(2013), None, None>>}

StrInputs ==
    {None} \cup {Some(FormatYmd(D)) : D \in CalDates}
    \cup {Some(FormatLoose(<<2011, 1, 1>>)), Some(FormatDashed(<<2013, 12, 31>>))}

MjdInputs == {None} \cup {Some(MjdOf(D)) : D \in CalDates}

----------------------------------------------------------------------------
(* The state machine: a receiver and the last call made on it.             *)

NoArgs == [n |-> 0]

Init ==
    /\ self \in Receivers
    /\ op = "new"
    /\ args = NoArgs
    /\ result = self

Add ==
    /\ op = "new"
    /\ \E d \in Deltas :
           /\ op' = "add"
           /\ args' = [d |-> d]
           /\ result' = add(self, d)
           /\ UNCHANGED self

Radd ==
    /\ op = "new"
    /\ \E d \in Deltas :
           /\ op' = "radd"
           /\ args' = [d |-> d]
           /\ result' = radd(self, d)
           /\ UNCHANGED self

Sub ==
    /\ op = "new"
    /\ \E o \in Deltas \cup Others :
           /\ op' = "sub"
           /\ args' = [other |-> o]
           /\ result' = sub(self, o)
           /\ UNCHANGED self

Property ==
    /\ op = "new"
    /\ \E name \in GnssProps :
           /\ op' = name
           /\ args' = NoArgs
           /\ result' = GetAttr(self, name)
           /\ UNCHANGED self

FromDatetime ==
    /\ op = "new"
    /\ \E dto \in Others :
           /\ op' = "from_datetime"
           /\ args' = [dto |-> dto]
           /\ result' = from_datetime(dto)
           /\ UNCHANGED self

ToDatetime ==
    /\ op = "new"
    /\ op' = "to_datetime"
    /\ args' = NoArgs
    /\ result' = to_datetime(self)
    /\ UNCHANGED self

FromMjd ==
    /\ op = "new"
    /\ \E m \in Mjds :
           /\ op' = "from_mjd"
           /\ args' = [mjd |-> m]
           /\ result' = from_mjd(m)
           /\ UNCHANGED self

FromGpsw ==
    /\ op = "new"
    /\ \E w \in Weeks(self), wd \in OptWeekdays(self), tow \in Tows,
          r \in 0..MaxRollover :
           /\ op' = "from_gpsw"
           /\ args' = [gpsw |-> w, gpswd |-> wd, tow |-> tow, nrollover |-> r]
           /\ result' = from_gpsw(w, wd, tow, r)
           /\ UNCHANGED self

FromDoy ==
    /\ op = "new"
    /\ \E y \in Years, n \in Doys :
           /\ op' = "from_doy"
           /\ args' = [year |-> y, doy |-> n]
           /\ result' = from_doy(y, n)
           /\ UNCHANGED self

\* the call returns and the receiver is ready for the next one
Return ==
    /\ op # "new"
    /\ op' = "new"
    /\ args' = NoArgs
    /\ result' = self
    /\ UNCHANGED self

Next ==
    \/ Add
    \/ Radd
    \/ Sub
    \/ Property
    \/ FromDatetime
    \/ ToDatetime
    \/ FromMjd
    \/ FromGpsw
    \/ FromDoy
    \/ Return

Spec == Init /\ [][Next]_vars

----------------------------------------------------------------------------
(* The gpscal front-end, called on the receivers the module calls it on.   *)

InitCal ==
    /\ self \in CalReceivers
    /\ op = "new"
    /\ args = NoArgs
    /\ result = self

Gpscal ==
    /\ op = "new"
    /\ \E pos \in PosInputs, date \in DateInputs, k \in YmdInputs,
          ymd \in StrInputs, m \in MjdInputs :
           /\ op' = "gpscal"
           /\ args' = [pos |-> pos, date |-> date, year |-> k[1], month |-> k[2],
                       day |-> k[3], ymd |-> ymd, mjd |-> m]
           /\ result' = gpscal(self, pos, date, k[1], k[2], k[3], ymd, m)
           /\ UNCHANGED self

NextCal ==
    \/ Gpscal
    \/ Return

SpecCal == InitCal /\ [][NextCal]_vars

----------------------------------------------------------------------------
(* Properties of the arithmetic, the leap-second table and the             *)
(* constructors, checked under Spec.                                       *)

YmdOf(t) == <<t.year, t.month, t.day>>

\* C1: gpst(t) is the instant t + leapsec(t) seconds, hence never later
\* than t; gnsstime(2011,1,1) has leapsec -15 and gpst 2010-12-31T23:59:45.
C1_GpstIsTimePlusLeapsec ==
    op = "gpst" =>
        /\ result = DatetimeAdd(self, timedelta(0, leapsec(self), 0))
        /\ Geq(self, result)
        /\ self = gnsstime(2011, 1, 1) =>
              /\ leapsec(self) = -15
              /\ Fields(result) = <<2010, 12, 31, 23, 59, 45, 0>>

\* C2: from_gpsw(gpsw(t), gpswd(t)) with nrollover = 0 has the year, month
\* and day of t, before, at and after the GPS epoch; gpsw(t)*7 + gpswd(t) is
\* the number of whole days from 1980-01-06 to the date of t.
C2_WeekRoundTrip ==
    (/\ op = "from_gpsw"
     /\ args.gpsw = gpsw(self)
     /\ args.gpswd = Some(gpswd(self))
     /\ args.nrollover = 0)
    => /\ IsTime(result)
       /\ YmdOf(result) = YmdOf(self)
       /\ gpsw(self) * 7 + gpswd(self) = toordinal(self) - toordinal(dt_gpst0)

\* C3: nrollover counts 1024-week cycles: from_gpsw(w, wd, nrollover = r) is
\* the instant from_gpsw(w + 1024*r, wd, nrollover = 0).
C3_RolloverCountsWeeks ==
    op = "from_gpsw" =>
        result = from_gpsw(args.gpsw + 1024 * args.nrollover, args.gpswd,
                           args.tow, 0)

\* C4: (t + d) - d = t and (t - d) + d = t on all seven fields, and
\* d + t = t + d, whenever the intermediate result is a representable date.
C4_AddSubRoundTrip ==
    /\ (op = "add" /\ IsTime(result)) =>
          /\ sub(result, args.d) = self
          /\ result = radd(self, args.d)
    /\ (op = "radd" /\ IsTime(result)) =>
          /\ sub(result, args.d) = self
          /\ result = add(self, args.d)
    /\ (op = "sub" /\ args.other.cls = "timedelta" /\ IsTime(result)) =>
          add(result, args.other) = self

\* C4 witness: a duration with negative days and a microsecond part was added
\* to a receiver with microseconds, and the sum fell on another day.
C4_Witness ==
    /\ op = "add"
    /\ args.d.days < 0
    /\ args.d.microseconds > 0
    /\ self.microsecond > 0
    /\ IsTime(result)
    /\ YmdOf(result) # YmdOf(self)
    /\ result.microsecond # self.microsecond

\* C5: a - b is (ordinal day of a - ordinal day of b) days plus the
\* second-of-day difference plus (a.microsecond - b.microsecond)
\* microseconds, so that b + (a - b) = a.
C5_DifferenceIsExact ==
    (op = "sub" /\ IsTime(args.other)) =>
        /\ result = timedelta(toordinal(self) - toordinal(args.other),
                              SecOfDay(self) - SecOfDay(args.other),
                              self.microsecond - args.other.microsecond)
        /\ Fields(DatetimeAdd(args.other, result)) = Fields(self)

\* the table entries in force at t
Applicable(t) == {i \in 1..Len(leaps) : Geq(t, leaps[i].date)}

\* C6: leapsec(t) is the offset of the entry with the greatest effective date
\* <= t (inclusive from 00:00:00 of that date), and 0 before 1981-07-01;
\* leapsec(1980-01-01) = 0 and leapsec(2016-01-01) = -17; it is a
\* non-increasing step function of t with values from 0 down to -17.
C6_LeapsecIsLatestEntry ==
    op = "leapsec" =>
        /\ IF Applicable(self) = {}
           THEN result.v = 0 /\ ~Geq(self, Datetime(1981, 7, 1))
           ELSE \E i \in Applicable(self) :
                   /\ result.v = leaps[i].sec
                   /\ \A j \in Applicable(self) : Geq(leaps[i].date, leaps[j].date)
        /\ ~Geq(self, Datetime(1981, 7, 1)) => result.v = 0
        /\ self = gnsstime(1980, 1, 1) => result.v = 0
        /\ self = gnsstime(2016, 1, 1) => result.v = -17
        /\ result.v \in -17..0
        /\ \A t \in Receivers : Geq(t, self) => leapsec(t) <= result.v

\* C6 witness: the receiver is exactly the effective date of the newest
\* entry, at 00:00:00, and that entry's offset was returned.
C6_Witness ==
    /\ op = "leapsec"
    /\ Fields(self) = <<2015, 7, 1, 0, 0, 0, 0>>
    /\ result.v = -17

\* C9: from_datetime, from_mjd, from_doy (doy >= 1), from_gpsw, t + d, d + t
\* and t - d return a gnsstime, on which gpsw, gpswd, gpswsec, doy, leapsec,
\* gpst and mjd are defined, never a plain datetime.
C9_ReturnsGnsstime ==
    (/\ \/ op \in {"from_datetime", "from_mjd", "from_gpsw", "add", "radd"}
        \/ op = "sub" /\ args.other.cls = "timedelta"
        \/ op = "from_doy" /\ args.doy >= 1
     /\ ~IsError(result))
    => /\ result.cls = "gnsstime"
       /\ \A p \in GnssProps : ~IsError(GetAttr(result, p))

NormalYear(y) == IF y < 80 THEN y + 2000 ELSE IF y <= 99 THEN y + 1900 ELSE y

\* C10: for doy < 1 from_doy ends in an error outcome that is no timestamp
\* and that the caller can tell from a result; for doy >= 1 it does not, and
\* returns January 1 of the normalised year plus doy - 1 days.
C10_FromDoy ==
    op = "from_doy" =>
        IF args.doy < 1
        THEN result = NoneResult /\ ~IsTime(result)
        ELSE /\ result # NoneResult
             /\ LET n == ymd2ord(NormalYear(args.year), 1, 1) + args.doy - 1
                IN  n <= 3652059 =>
                       /\ result.cls = "gnsstime"
                       /\ YmdOf(result) = <<ord2ymd(n).year, ord2ymd(n).month,
                                            ord2ymd(n).day>>
                       /\ SecOfDay(result) = 0
                       /\ result.microsecond = 0

\* C10 witness: from_doy was called with day 0 of a two-digit year and
\* returned no timestamp.
C10_Witness ==
    /\ op = "from_doy"
    /\ args.year = 79
    /\ args.doy = 0
    /\ result = NoneResult

----------------------------------------------------------------------------
(* Properties of gpscal, checked under SpecCal.                            *)

TripleOf(D) ==
    LET g == gnsstime(D[1], D[2], D[3])
    IN  [cls |-> "tuple", doy |-> doy(g), gpsw |-> gpsw(g), gpswd |-> gpswd(g)]

NoInput ==
    [pos |-> <<>>, date |-> None, year |-> None, month |-> None, day |-> None,
     ymd |-> None, mjd |-> None]

\* the arguments that supply the date D in one form only
SingleForms(D) ==
    { [NoInput EXCEPT !.pos = PosInts(D)],
      [NoInput EXCEPT !.pos = <<Datetime(D[1], D[2], D[3])>>],
      [NoInput EXCEPT !.pos = <<Str(FormatYmd(D))>>],
      [NoInput EXCEPT !.date = Some(Datetime(D[1], D[2], D[3]))],
      [NoInput EXCEPT !.year = Some(D[1]), !.month = Some(D[2]), !.day = Some(D[3])],
      [NoInput EXCEPT !.ymd = Some(FormatYmd(D))],
      [NoInput EXCEPT !.mjd = Some(MjdOf(D))] }

\* C7: gpscal returns (doy(D), gpsw(D), gpswd(D)) whichever single form the
\* date D is supplied in, and the receiver's own triple with no input; every
\* form of 2013-12-31 gives (365, 1773, 2), gnsstime(2011,1,1).gpscal() gives
\* (1, 1616, 6).
C7_GpscalSameForEveryForm ==
    op = "gpscal" =>
        /\ \A D \in CalDates : args \in SingleForms(D) => result = TripleOf(D)
        /\ args \in SingleForms(<<2013, 12, 31>>) =>
              result = [cls |-> "tuple", doy |-> 365, gpsw |-> 1773, gpswd |-> 2]
        /\ args = NoInput => result = TripleOf(YmdOf(self))
        /\ (args = NoInput /\ YmdOf(self) = <<2011, 1, 1>>) =>
              result = [cls |-> "tuple", doy |-> 1, gpsw |-> 1616, gpswd |-> 6]

\* the dates a string denotes
StrDates(str) == {D \in CalDates : str \in {FormatYmd(D), FormatLoose(D)}}

\* the dates the positional arguments denote
PosDates(pos) ==
    {D \in CalDates :
        \/ pos = PosInts(D)
        \/ pos = <<Datetime(D[1], D[2], D[3])>>
        \/ pos = <<Str(FormatYmd(D))>>}

\* the dates denoted by the highest-precedence input supplied: date= >
\* year=/month=/day= > ymd= > mjd= > positional > the receiver
Denoted(a, t) ==
    IF ~IsNone(a.date) THEN {YmdOf(Val(a.date))}
    ELSE IF ~IsNone(a.year) /\ ~IsNone(a.month) /\ ~IsNone(a.day)
         THEN {<<Val(a.year), Val(a.month), Val(a.day)>>}
    ELSE IF ~IsNone(a.year) \/ ~IsNone(a.month) \/ ~IsNone(a.day) THEN {}
    ELSE IF ~IsNone(a.ymd) THEN StrDates(Val(a.ymd))
    ELSE IF ~IsNone(a.mjd) THEN {D \in CalDates : MjdOf(D) = Val(a.mjd)}
    ELSE IF a.pos # <<>> THEN PosDates(a.pos)
    ELSE {YmdOf(t)}

\* C8: with several inputs, gpscal converts the date denoted by the
\* highest-precedence one, whatever the lower-precedence inputs are: they
\* neither change the result nor make the call fail.
C8_PrecedenceOrder ==
    op = "gpscal" => \A D \in Denoted(args, self) : result = TripleOf(D)

====
